---- MODULE Spec2Model ----
(***************************************************************************)
(* A model of the go-log logger package: the process-wide logInstance, its *)
(* initialisation, the zap cores NewLogger tees together, the leveled and  *)
(* formatted logging functions in their package-level and method forms,    *)
(* and Cleanup.  The repository carries three revisions of the package     *)
(* (src/unnamed/part_001, src/pkg/logger/go-logger.go, src/unnamed/        *)
(* part_000); the variable pkg says which one the process is built from.   *)
(***************************************************************************)
EXTENDS Integers, Sequences, FiniteSets, TLC

(***************************************************************************)
(* Bounds of the model.                                                    *)
(***************************************************************************)
MaxCalls == 2
MaxInits == 2

Threads == {1, 2}

Pkgs == {"part_001", "go_logger", "part_000"}

(***************************************************************************)
(* zapcore levels, as the source names them.                               *)
(***************************************************************************)
DebugLevel == -1
InfoLevel == 0
WarnLevel == 1
ErrorLevel == 2
FatalLevel == 5

(***************************************************************************)
(* Configurations the application may hand to Init.                        *)
(***************************************************************************)
CfgA == [InfoLogPath |-> "a/info.log", ErrorLogPath |-> "a/error.log", Mode |-> "prod"]
CfgB == [InfoLogPath |-> "b/info.log", ErrorLogPath |-> "b/error.log", Mode |-> "dev"]
NoCfg == [InfoLogPath |-> "", ErrorLogPath |-> "", Mode |-> ""]

Configs == {CfgA, CfgB}

Stdout == "stdout"

Dests == {c.InfoLogPath : c \in Configs} \cup {c.ErrorLogPath : c \in Configs} \cup {Stdout}

(***************************************************************************)
(* Values: error values and what their Error() method returns, the other   *)
(* values a caller may pass as a formatting argument.                      *)
(***************************************************************************)
Errs == {"e1", "e2"}
NilValue == "nil"

ErrorText(e) == IF e = "e1" THEN "boom1" ELSE "boom2"

String(key, val) == [key |-> key, val |-> val]

ZeroField == [key |-> "", val |-> <<>>]

(***************************************************************************)
(* The caller's tags slice: AppTags are its elements, the backing array    *)
(* may have spare capacity after them.                                     *)
(***************************************************************************)
AppTags == <<String("k", <<"v">>)>>
SpareCells == <<ZeroField, ZeroField, ZeroField>>

Min(a, b) == IF a < b THEN a ELSE b

Take(s, n) == SubSeq(s, 1, Min(n, Len(s)))

(***************************************************************************)
(* Level filters of the cores.                                             *)
(***************************************************************************)
\* zapcore.Level.Enabled: a bare level given as the enabler of a core
Level_Enabled(min, lvl) == lvl >= min

\* the LevelEnablerFunc of infoCore in part_001
infoEnabler(lvl) == lvl >= DebugLevel /\ lvl <= WarnLevel

\* the LevelEnablerFunc of errorCore in part_001
errorEnabler(lvl) == lvl >= ErrorLevel

Enabled(core, lvl) ==
    CASE core.filter = "infoEnabler" -> infoEnabler(lvl)
      [] core.filter = "errorEnabler" -> errorEnabler(lvl)
      [] core.filter = "InfoLevel" -> Level_Enabled(InfoLevel, lvl)
      [] core.filter = "ErrorLevel" -> Level_Enabled(ErrorLevel, lvl)
      [] core.filter = "DebugLevel" -> Level_Enabled(DebugLevel, lvl)

\* getEncoderConfig: the console encoder configuration the mode selects
getEncoderConfig(config) ==
    IF config.Mode = "prod" THEN "console/production" ELSE "console/development"

Core(name, enc, dest, filter) == [name |-> name, enc |-> enc, dest |-> dest, filter |-> filter]

Nil == [id |-> 0, config |-> NoCfg, cores |-> <<>>]

\* NewLogger of part_001: info, error and console cores under one tee
NewLogger(config, id) ==
    [id |-> id, config |-> config,
     cores |-> << Core("info", "json/beijing", config.InfoLogPath, "infoEnabler"),
                  Core("error", "json/beijing", config.ErrorLogPath, "errorEnabler"),
                  Core("console", getEncoderConfig(config), Stdout, "DebugLevel") >>]

\* NewLogger of pkg/logger/go-logger.go: two cores, each with a minimum level
NewLogger_go_logger(config, id) ==
    [id |-> id, config |-> config,
     cores |-> << Core("info", "json/beijing", config.InfoLogPath, "InfoLevel"),
                  Core("error", "json/beijing", config.ErrorLogPath, "ErrorLevel") >>]

\* NewLogger of part_000: as go-logger.go, with the production time encoder
NewLogger_part_000(config, id) ==
    [id |-> id, config |-> config,
     cores |-> << Core("info", "json/epoch", config.InfoLogPath, "InfoLevel"),
                  Core("error", "json/epoch", config.ErrorLogPath, "ErrorLevel") >>]

NewLoggerOf(p, config, id) ==
    CASE p = "part_001" -> NewLogger(config, id)
      [] p = "go_logger" -> NewLogger_go_logger(config, id)
      [] p = "part_000" -> NewLogger_part_000(config, id)

\* sync.Once guards Init in part_001 and go-logger.go, not in part_000
HasOnce(p) == p \in {"part_001", "go_logger"}

(***************************************************************************)
(* The tee: an entry goes to every core whose filter accepts its level.    *)
(***************************************************************************)
Entry(id, lvl, msg, fields) == [id |-> id, level |-> lvl, msg |-> msg, fields |-> fields]

RECURSIVE NewTee_Write(_, _, _)
NewTee_Write(o, cores, ent) ==
    IF cores = <<>> THEN o
    ELSE LET c == Head(cores)
             o1 == IF Enabled(c, ent.level) THEN [o EXCEPT ![c.dest] = Append(@, ent)] ELSE o
         IN NewTee_Write(o1, Tail(cores), ent)

(***************************************************************************)
(* zapErrorWithStack: the error's message and the goroutine's stack trace, *)
(* cut to the buffer.  A trace is a sequence of lines, the goroutine       *)
(* header first; the buffer's size counts lines here.                      *)
(***************************************************************************)
StackBufSize == 1024

runtime_Stack(bufSize, t, frames) ==
    Take(<<"goroutine", ToString(t), "[running]:">> \o frames, bufSize)

zapErrorWithStack(err, t, frames) ==
    << String("error", <<ErrorText(err)>>),
       String("stacktrace", runtime_Stack(StackBufSize, t, <<"zapErrorWithStack">> \o frames)) >>

(***************************************************************************)
(* fmt.Sprintf on a format given as a sequence of pieces, a piece being    *)
(* the verb %v or literal text; the result is the sequence of the output's *)
(* pieces.                                                                 *)
(***************************************************************************)
Verb == "%v"

\* %v of an operand
printValue(a) ==
    IF a \in Errs THEN ErrorText(a)
    ELSE IF a = NilValue THEN "<nil>"
    ELSE a

\* the type of an operand, as the EXTRA report prints it
typeString(a) ==
    IF a \in Errs THEN "*errors.errorString"
    ELSE IF a = NilValue THEN "<nil>"
    ELSE "string"

RECURSIVE extraArgs(_, _)
extraArgs(args, argNum) ==
    IF argNum > Len(args) THEN <<>>
    ELSE (IF args[argNum] = NilValue THEN <<"<nil>">>
          ELSE <<typeString(args[argNum]), "=", printValue(args[argNum])>>)
         \o (IF argNum < Len(args) THEN <<", ">> ELSE <<>>)
         \o extraArgs(args, argNum + 1)

RECURSIVE doPrintf(_, _, _)
doPrintf(format, args, argNum) ==
    IF format = <<>>
    THEN IF argNum <= Len(args)
         THEN <<"%!(EXTRA ">> \o extraArgs(args, argNum) \o <<")">>
         ELSE <<>>
    ELSE IF Head(format) = Verb
         THEN IF argNum <= Len(args)
              THEN <<printValue(args[argNum])>> \o doPrintf(Tail(format), args, argNum + 1)
              ELSE <<"%!v(MISSING)">> \o doPrintf(Tail(format), args, argNum)
         ELSE <<Head(format)>> \o doPrintf(Tail(format), args, argNum)

Sprintf(format, args) == doPrintf(format, args, 1)

\* a scan without the break: the last argument that is an error, or nil
RECURSIVE stackErrOf_last(_)
stackErrOf_last(args) ==
    IF args = <<>> THEN NilValue
    ELSE IF args[Len(args)] \in Errs THEN args[Len(args)]
    ELSE stackErrOf_last(SubSeq(args, 1, Len(args) - 1))

\* the scan of Logger.Errorf: the first argument that is an error, or nil
RECURSIVE stackErrOf(_)
stackErrOf(args) ==
    IF args = <<>> THEN NilValue
    ELSE IF Head(args) \in Errs THEN Head(args)
    ELSE stackErrOf(Tail(args))

(***************************************************************************)
(* State.                                                                  *)
(***************************************************************************)
VARIABLES
    pkg,            \* the revision of the package the process is built from
    goroutines,     \* the goroutines of the application
    callBound,      \* how many calls of the API the application makes
    once,           \* sync.Once: "fresh", "running" (f is executing), "done"
    logInstance,    \* the package variable, Nil until an Init stores a logger
    nConstructed,   \* how many times NewLogger has run
    initDone,       \* whether some Init call has returned
    out,            \* what each destination (log file, stdout) has received
    pc,             \* where each goroutine is
    loc,            \* each goroutine's locals inside a multi-step call
    backing,        \* the backing array of the application's tags slice
    calls,          \* the calls made so far, with their inputs and outcome
    halt,           \* "up", "panic" (unrecovered panic), "exit" (os.Exit)
    flushed         \* the calls that had returned when the last Cleanup ran

vars == <<pkg, goroutines, callBound, once, logInstance, nConstructed, initDone,
          out, pc, loc, backing, calls, halt, flushed>>

NoLoc == [cfg |-> NoCfg, l |-> Nil, shared |-> FALSE, n |-> 0, priv |-> <<>>, id |-> 0]

NoLevel == DebugLevel - 1

PlainMsg == <<"m">>

\* the process of an application built from revision p, before its first call
Start(p, gs, bound) ==
    /\ pkg = p
    /\ goroutines = gs
    /\ callBound = bound
    /\ once = "fresh"
    /\ logInstance = Nil
    /\ nConstructed = 0
    /\ initDone = FALSE
    /\ out = [d \in Dests |-> <<>>]
    /\ pc = [t \in Threads |-> "idle"]
    /\ loc = [t \in Threads |-> NoLoc]
    /\ backing \in {AppTags, AppTags \o SpareCells}
    /\ calls = <<>>
    /\ halt = "up"
    /\ flushed = {}

Init == Start("part_001", Threads, MaxCalls)

Up == halt = "up"

Idle(t) == Up /\ t \in goroutines /\ pc[t] = "idle"

CanCall(t) == Idle(t) /\ Len(calls) < callBound

\* the tags argument: the application's slice passed as tags..., or none
Tags(sh) == IF sh THEN SubSeq(backing, 1, Len(AppTags)) ELSE <<>>

\* what a call is and what it was given, with what was true when it was made
Call(fn, format, args, e, sh) ==
    [fn |-> fn, level |-> NoLevel, format |-> format, args |-> args, err |-> e,
     shared |-> sh, inst |-> 0, status |-> "running", ready |-> initDone,
     msg |-> <<>>, fields |-> <<>>]

(***************************************************************************)
(* Init, in three steps: the call enters once.Do (or, in part_000, goes    *)
(* straight on), NewLogger runs and its result is stored, the call returns.*)
(* A call that finds once.Do running waits for it.  NewLogger runs at most *)
(* MaxInits times in a behaviour of the model.                             *)
(***************************************************************************)
Init_call(t, config) ==
    /\ Idle(t)
    /\ nConstructed + Cardinality({u \in Threads : pc[u] = "init_f"}) < MaxInits
    /\ IF HasOnce(pkg)
       THEN /\ once # "running"
            /\ IF once = "done"
               THEN UNCHANGED <<once, pc, loc>>
               ELSE /\ once' = "running"
                    /\ pc' = [pc EXCEPT ![t] = "init_f"]
                    /\ loc' = [loc EXCEPT ![t] = [NoLoc EXCEPT !.cfg = config]]
       ELSE /\ pc' = [pc EXCEPT ![t] = "init_f"]
            /\ loc' = [loc EXCEPT ![t] = [NoLoc EXCEPT !.cfg = config]]
            /\ once' = once
    /\ UNCHANGED <<pkg, goroutines, callBound, logInstance, nConstructed, initDone, out,
                   backing, calls, halt, flushed>>

Init_func1(t) ==
    /\ Up /\ pc[t] = "init_f"
    /\ logInstance' = NewLoggerOf(pkg, loc[t].cfg, nConstructed + 1)
    /\ nConstructed' = nConstructed + 1
    /\ pc' = [pc EXCEPT ![t] = "init_ret"]
    /\ UNCHANGED <<pkg, goroutines, callBound, once, initDone, out, loc, backing,
                   calls, halt, flushed>>

Init_return(t) ==
    /\ Up /\ pc[t] = "init_ret"
    /\ once' = IF HasOnce(pkg) THEN "done" ELSE once
    /\ initDone' = TRUE
    /\ pc' = [pc EXCEPT ![t] = "idle"]
    /\ loc' = [loc EXCEPT ![t] = NoLoc]
    /\ UNCHANGED <<pkg, goroutines, callBound, logInstance, nConstructed, out,
                   backing, calls, halt, flushed>>

GetInstance == logInstance

(***************************************************************************)
(* l.zap.<Level>(msg, fields...): a nil receiver panics at l.zap; otherwise*)
(* the entry is written to every core that accepts the level.              *)
(***************************************************************************)
\* zapLog with a writer that keeps the entry back: the call returns, nothing is written
zapLog_dropped(t, l, lvl, call, msg, fields) ==
    /\ CanCall(t)
    /\ calls' = Append(calls, [call EXCEPT !.level = lvl, !.inst = l.id, !.msg = msg,
                                           !.fields = fields,
                                           !.status = IF l = Nil THEN "panicked"
                                                      ELSE "returned"])
    /\ halt' = IF l = Nil THEN "panic" ELSE halt
    /\ UNCHANGED <<pkg, goroutines, callBound, once, logInstance, nConstructed,
                   initDone, out, pc, loc, backing, flushed>>

\* zapLog with a nil check: a call on the nil instance returns instead of panicking
zapLog_nilSafe(t, l, lvl, call, msg, fields) ==
    /\ CanCall(t)
    /\ calls' = Append(calls, [call EXCEPT !.level = lvl, !.inst = l.id, !.msg = msg,
                                           !.fields = fields, !.status = "returned"])
    /\ out' = IF l = Nil THEN out
              ELSE NewTee_Write(out, l.cores, Entry(Len(calls) + 1, lvl, msg, fields))
    /\ UNCHANGED <<pkg, goroutines, callBound, once, logInstance, nConstructed,
                   initDone, pc, loc, backing, halt, flushed>>

zapLog(t, l, lvl, call, msg, fields) ==
    /\ CanCall(t)
    /\ calls' = Append(calls, [call EXCEPT !.level = lvl, !.inst = l.id, !.msg = msg,
                                           !.fields = fields,
                                           !.status = IF l = Nil THEN "panicked"
                                                      ELSE "returned"])
    /\ IF l = Nil
       THEN halt' = "panic" /\ out' = out
       ELSE halt' = halt
            /\ out' = NewTee_Write(out, l.cores, Entry(Len(calls) + 1, lvl, msg, fields))
    /\ UNCHANGED <<pkg, goroutines, callBound, once, logInstance, nConstructed,
                   initDone, pc, loc, backing, flushed>>

Logger_Info(t, l, call, msg, tags) == zapLog(t, l, InfoLevel, call, msg, tags)

Logger_Debug(t, l, call, msg, tags) == zapLog(t, l, DebugLevel, call, msg, tags)

Logger_Warn(t, l, call, msg, tags) == zapLog(t, l, WarnLevel, call, msg, tags)

\* Logger.Error of go-logger.go and part_000: no err argument
Logger_Error_plain(t, l, call, msg, tags) == zapLog(t, l, ErrorLevel, call, msg, tags)

Info(t, sh) ==
    Logger_Info(t, logInstance, Call("Info", PlainMsg, <<>>, NilValue, sh), PlainMsg, Tags(sh))

Debug(t, sh) ==
    Logger_Debug(t, logInstance, Call("Debug", PlainMsg, <<>>, NilValue, sh), PlainMsg, Tags(sh))

Warn(t, sh) ==
    Logger_Warn(t, logInstance, Call("Warn", PlainMsg, <<>>, NilValue, sh), PlainMsg, Tags(sh))

\* zapFatal that goes to the exit without writing the entry
zapFatal_noWrite(t, l, call, msg, fields) ==
    /\ CanCall(t)
    /\ calls' = Append(calls, [call EXCEPT !.level = FatalLevel, !.inst = l.id,
                                           !.msg = msg, !.fields = fields,
                                           !.status = IF l = Nil THEN "panicked"
                                                      ELSE "running"])
    /\ IF l = Nil
       THEN halt' = "panic" /\ pc' = pc
       ELSE halt' = halt /\ pc' = [pc EXCEPT ![t] = "fatal_exit"]
    /\ loc' = [loc EXCEPT ![t] = [NoLoc EXCEPT !.id = Len(calls) + 1]]
    /\ UNCHANGED <<pkg, goroutines, callBound, once, logInstance, nConstructed,
                   initDone, out, backing, flushed>>

\* Logger.Fatal: zap writes the entry, then exits the process
zapFatal(t, l, call, msg, fields) ==
    /\ CanCall(t)
    /\ calls' = Append(calls, [call EXCEPT !.level = FatalLevel, !.inst = l.id,
                                           !.msg = msg, !.fields = fields,
                                           !.status = IF l = Nil THEN "panicked"
                                                      ELSE "running"])
    /\ IF l = Nil
       THEN halt' = "panic" /\ out' = out /\ pc' = pc
       ELSE halt' = halt
            /\ out' = NewTee_Write(out, l.cores,
                                   Entry(Len(calls) + 1, FatalLevel, msg, fields))
            /\ pc' = [pc EXCEPT ![t] = "fatal_exit"]
    /\ loc' = [loc EXCEPT ![t] = [NoLoc EXCEPT !.id = Len(calls) + 1]]
    /\ UNCHANGED <<pkg, goroutines, callBound, once, logInstance, nConstructed,
                   initDone, backing, flushed>>

\* the os.Exit(1) that ends a Fatal call
zap_exit(t) ==
    /\ Up /\ pc[t] = "fatal_exit"
    /\ halt' = "exit"
    /\ calls' = [calls EXCEPT ![loc[t].id].status = "exited"]
    /\ UNCHANGED <<pkg, goroutines, callBound, once, logInstance, nConstructed,
                   initDone, out, pc, loc, backing, flushed>>

Logger_Fatal(t, l, call, msg, tags) == zapFatal(t, l, call, msg, tags)

Fatal(t, sh) ==
    Logger_Fatal(t, logInstance, Call("Fatal", PlainMsg, <<>>, NilValue, sh), PlainMsg, Tags(sh))

\* Error of go-logger.go and part_000
Error_plain(t, sh) ==
    Logger_Error_plain(t, logInstance, Call("Error", PlainMsg, <<>>, NilValue, sh),
                       PlainMsg, Tags(sh))

(***************************************************************************)
(* Logger.Error of part_001.  append writes the three new fields into the  *)
(* backing array of tags when its capacity allows, and otherwise into a    *)
(* new array; l.zap.Error then reads allFields.  The two are separate      *)
(* steps: other goroutines run between them.                               *)
(***************************************************************************)
\* whether append(tags, k more) reuses the backing array of tags
append_inPlace(sh, n, cap, k) == sh /\ n + k <= cap

Logger_Error_fields(e, t, frames) ==
    LET es == zapErrorWithStack(e, t, frames)
    IN <<String("error", <<ErrorText(e)>>), es[1], es[2]>>

Logger_Error(t, l, call, e, sh, frames) ==
    /\ CanCall(t)
    /\ IF e = NilValue
       THEN \* err.Error() on a nil error panics
            /\ calls' = Append(calls, [call EXCEPT !.level = ErrorLevel, !.inst = l.id,
                                                   !.status = "panicked"])
            /\ halt' = "panic"
            /\ UNCHANGED <<pc, loc, backing>>
       ELSE LET new == Logger_Error_fields(e, t, frames)
                tags == Tags(sh)
                inPlace == append_inPlace(sh, Len(tags), Len(backing), Len(new))
            IN /\ backing' = IF inPlace
                             THEN [i \in 1..Len(backing) |->
                                     IF i > Len(tags) /\ i <= Len(tags) + Len(new)
                                     THEN new[i - Len(tags)] ELSE backing[i]]
                             ELSE backing
               /\ loc' = [loc EXCEPT ![t] =
                            [NoLoc EXCEPT !.l = l, !.shared = inPlace,
                                          !.n = Len(tags) + Len(new),
                                          !.priv = IF inPlace THEN <<>> ELSE tags \o new,
                                          !.id = Len(calls) + 1]]
               /\ pc' = [pc EXCEPT ![t] = "error_emit"]
               /\ calls' = Append(calls, [call EXCEPT !.level = ErrorLevel, !.inst = l.id])
               /\ halt' = halt
    /\ UNCHANGED <<pkg, goroutines, callBound, once, logInstance, nConstructed,
                   initDone, out, flushed>>

\* l.zap.Error(msg, allFields...)
Logger_Error_emit(t) ==
    /\ Up /\ pc[t] = "error_emit"
    /\ LET l == loc[t].l
           id == loc[t].id
           allFields == IF loc[t].shared THEN SubSeq(backing, 1, loc[t].n)
                        ELSE loc[t].priv
       IN /\ calls' = [calls EXCEPT ![id].status = IF l = Nil THEN "panicked"
                                                   ELSE "returned",
                                    ![id].fields = IF l = Nil THEN <<>> ELSE allFields]
          /\ IF l = Nil
             THEN halt' = "panic" /\ out' = out
             ELSE halt' = halt
                  /\ out' = NewTee_Write(out, l.cores,
                                         Entry(id, ErrorLevel, calls[id].msg, allFields))
    /\ pc' = [pc EXCEPT ![t] = "idle"]
    /\ loc' = [loc EXCEPT ![t] = NoLoc]
    /\ UNCHANGED <<pkg, goroutines, callBound, once, logInstance, nConstructed,
                   initDone, backing, flushed>>

Error(t, e, sh) ==
    Logger_Error(t, logInstance, [Call("Error", PlainMsg, <<>>, e, sh) EXCEPT !.msg = PlainMsg],
                 e, sh, <<"Logger.Error", "Error">>)

(***************************************************************************)
(* The formatted variants.                                                 *)
(***************************************************************************)
Logger_Infof(t, l, call, format, args) == zapLog(t, l, InfoLevel, call, Sprintf(format, args), <<>>)

Logger_Debugf(t, l, call, format, args) == zapLog(t, l, DebugLevel, call, Sprintf(format, args), <<>>)

Logger_Warnf(t, l, call, format, args) == zapLog(t, l, WarnLevel, call, Sprintf(format, args), <<>>)

Logger_Fatalf(t, l, call, format, args) == zapFatal(t, l, call, Sprintf(format, args), <<>>)

\* Logger.Errorf of part_001: the fields are attached when an argument is an error
Logger_Errorf(t, l, call, format, args, frames) ==
    LET msg == Sprintf(format, args)
        stackErr == stackErrOf(args)
    IN IF stackErr # NilValue
       THEN zapLog(t, l, ErrorLevel, call, msg, zapErrorWithStack(stackErr, t, frames))
       ELSE zapLog(t, l, ErrorLevel, call, msg, <<>>)

Infof(t, format, args) ==
    Logger_Info(t, logInstance, Call("Infof", format, args, NilValue, FALSE),
                Sprintf(format, args), <<>>)

Debugf(t, format, args) ==
    Logger_Debug(t, logInstance, Call("Debugf", format, args, NilValue, FALSE),
                 Sprintf(format, args), <<>>)

\* Warnf that logs the format as it stands
Warnf_raw(t, format, args) ==
    Logger_Warn(t, logInstance, Call("Warnf", format, args, NilValue, FALSE), format, <<>>)

Warnf(t, format, args) ==
    Logger_Warn(t, logInstance, Call("Warnf", format, args, NilValue, FALSE),
                Sprintf(format, args), <<>>)

Fatalf(t, format, args) ==
    Logger_Fatal(t, logInstance, Call("Fatalf", format, args, NilValue, FALSE),
                 Sprintf(format, args), <<>>)

Errorf(t, format, args) ==
    Logger_Errorf(t, logInstance, Call("Errorf", format, args, NilValue, FALSE),
                  format, args, <<"Logger.Errorf", "Errorf">>)

\* Errorf of go-logger.go
Errorf_go_logger(t, format, args) ==
    Logger_Error_plain(t, logInstance, Call("Errorf", format, args, NilValue, FALSE),
                       Sprintf(format, args), <<>>)

(***************************************************************************)
(* Cleanup: logInstance.zap.Sync().  The cores' writers hold nothing back: *)
(* the file writers have no Sync of their own and AddSync gives them one   *)
(* that does nothing.                                                      *)
(***************************************************************************)
Cleanup(t) ==
    /\ Idle(t)
    /\ IF logInstance = Nil
       THEN halt' = "panic" /\ flushed' = flushed
       ELSE halt' = halt
            /\ flushed' = {i \in 1..Len(calls) : calls[i].status = "returned"}
    /\ UNCHANGED <<pkg, goroutines, callBound, once, logInstance, nConstructed,
                   initDone, out, pc, loc, backing, calls>>

(***************************************************************************)
(* The formatted methods called on the logger GetInstance returns.         *)
(***************************************************************************)
GetInstance_Infof(t, format, args) ==
    Logger_Infof(t, GetInstance, Call("Logger.Infof", format, args, NilValue, FALSE),
                 format, args)

GetInstance_Debugf(t, format, args) ==
    Logger_Debugf(t, GetInstance, Call("Logger.Debugf", format, args, NilValue, FALSE),
                  format, args)

GetInstance_Warnf(t, format, args) ==
    Logger_Warnf(t, GetInstance, Call("Logger.Warnf", format, args, NilValue, FALSE),
                 format, args)

GetInstance_Fatalf(t, format, args) ==
    Logger_Fatalf(t, GetInstance, Call("Logger.Fatalf", format, args, NilValue, FALSE),
                  format, args)

GetInstance_Errorf(t, format, args) ==
    Logger_Errorf(t, GetInstance, Call("Logger.Errorf", format, args, NilValue, FALSE),
                  format, args, <<"Logger.Errorf">>)

(***************************************************************************)
(* The inputs of the calls.                                                *)
(***************************************************************************)
ErrArgs == Errs \cup {NilValue}

\* the formats and argument lists of the concurrent specifications
Formats == {<<"m", Verb>>}
ArgLists == {<<"e1">>}

Next ==
    \/ \E t \in Threads, config \in Configs : Init_call(t, config)
    \/ \E t \in Threads : Init_func1(t)
    \/ \E t \in Threads : Init_return(t)
    \/ \E t \in Threads : Info(t, TRUE)
    \/ \E t \in Threads : Debug(t, TRUE)
    \/ \E t \in Threads : Warn(t, TRUE)
    \/ \E t \in Threads, e \in ErrArgs, sh \in BOOLEAN : Error(t, e, sh)
    \/ \E t \in Threads : Logger_Error_emit(t)
    \/ \E t \in Threads : Fatal(t, TRUE)
    \/ \E t \in Threads : zap_exit(t)
    \/ \E t \in Threads, format \in Formats, args \in ArgLists : Infof(t, format, args)
    \/ \E t \in Threads, format \in Formats, args \in ArgLists : Debugf(t, format, args)
    \/ \E t \in Threads, format \in Formats, args \in ArgLists : Warnf(t, format, args)
    \/ \E t \in Threads, format \in Formats, args \in ArgLists : Errorf(t, format, args)
    \/ \E t \in Threads, format \in Formats, args \in ArgLists : Fatalf(t, format, args)
    \/ \E t \in Threads : Cleanup(t)

Spec == Init /\ [][Next]_vars

(***************************************************************************)
(* An application built from pkg/logger/go-logger.go.                      *)
(***************************************************************************)
Init_go_logger == Start("go_logger", Threads, MaxCalls)

Next_go_logger ==
    \/ \E t \in Threads, config \in Configs : Init_call(t, config)
    \/ \E t \in Threads : Init_func1(t)
    \/ \E t \in Threads : Init_return(t)
    \/ \E t \in Threads : Info(t, TRUE)
    \/ \E t \in Threads : Debug(t, TRUE)
    \/ \E t \in Threads : Warn(t, TRUE)
    \/ \E t \in Threads : Error_plain(t, TRUE)
    \/ \E t \in Threads : Fatal(t, TRUE)
    \/ \E t \in Threads : zap_exit(t)
    \/ \E t \in Threads, format \in Formats, args \in ArgLists : Infof(t, format, args)
    \/ \E t \in Threads, format \in Formats, args \in ArgLists : Debugf(t, format, args)
    \/ \E t \in Threads, format \in Formats, args \in ArgLists : Warnf(t, format, args)
    \/ \E t \in Threads, format \in Formats, args \in ArgLists : Errorf_go_logger(t, format, args)
    \/ \E t \in Threads, format \in Formats, args \in ArgLists : Fatalf(t, format, args)
    \/ \E t \in Threads : Cleanup(t)

Spec_go_logger == Init_go_logger /\ [][Next_go_logger]_vars

(***************************************************************************)
(* An application built from part_000.                                     *)
(***************************************************************************)
Init_part_000 == Start("part_000", Threads, MaxCalls)

Next_part_000 ==
    \/ \E t \in Threads, config \in Configs : Init_call(t, config)
    \/ \E t \in Threads : Init_func1(t)
    \/ \E t \in Threads : Init_return(t)
    \/ \E t \in Threads : Info(t, TRUE)
    \/ \E t \in Threads : Debug(t, TRUE)
    \/ \E t \in Threads : Warn(t, TRUE)
    \/ \E t \in Threads : Error_plain(t, TRUE)
    \/ \E t \in Threads : Fatal(t, TRUE)
    \/ \E t \in Threads : zap_exit(t)
    \/ \E t \in Threads : Cleanup(t)

Spec_part_000 == Init_part_000 /\ [][Next_part_000]_vars

(***************************************************************************)
(* The formatted variants of part_001 on every format and argument list up *)
(* to MaxArgs arguments: a single goroutine that initialises the logger    *)
(* and makes one call, by the package-level function or by the method.     *)
(***************************************************************************)
MaxArgs == 2

ArgValues == {"s", NilValue} \cup Errs

AllFormats == {<<"m">>, <<"m", Verb>>, <<Verb, "m", Verb>>}

AllArgLists == UNION {[1..n -> ArgValues] : n \in 0..MaxArgs}

Init_fmt == Start("part_001", {1}, 1)

Next_fmt ==
    \/ \E t \in Threads, config \in Configs : Init_call(t, config)
    \/ \E t \in Threads : Init_func1(t)
    \/ \E t \in Threads : Init_return(t)
    \/ \E t \in Threads : CanCall(t) /\ \E format \in AllFormats, args \in AllArgLists : Infof(t, format, args)
    \/ \E t \in Threads : CanCall(t) /\ \E format \in AllFormats, args \in AllArgLists : Debugf(t, format, args)
    \/ \E t \in Threads : CanCall(t) /\ \E format \in AllFormats, args \in AllArgLists : Warnf(t, format, args)
    \/ \E t \in Threads : CanCall(t) /\ \E format \in AllFormats, args \in AllArgLists : Errorf(t, format, args)
    \/ \E t \in Threads : CanCall(t) /\ \E format \in AllFormats, args \in AllArgLists : Fatalf(t, format, args)
    \/ \E t \in Threads : CanCall(t) /\ \E format \in AllFormats, args \in AllArgLists :
           GetInstance_Infof(t, format, args)
    \/ \E t \in Threads : CanCall(t) /\ \E format \in AllFormats, args \in AllArgLists :
           GetInstance_Debugf(t, format, args)
    \/ \E t \in Threads : CanCall(t) /\ \E format \in AllFormats, args \in AllArgLists :
           GetInstance_Warnf(t, format, args)
    \/ \E t \in Threads : CanCall(t) /\ \E format \in AllFormats, args \in AllArgLists :
           GetInstance_Errorf(t, format, args)
    \/ \E t \in Threads : CanCall(t) /\ \E format \in AllFormats, args \in AllArgLists :
           GetInstance_Fatalf(t, format, args)
    \/ \E t \in Threads : zap_exit(t)

Spec_fmt == Init_fmt /\ [][Next_fmt]_vars

(***************************************************************************)
(* The claims.                                                             *)
(***************************************************************************)
\* the positions in destination d of the entries of call i
EntriesOf(d, i) == {k \in 1..Len(out[d]) : out[d][k].id = i}

InOut(d, i) == EntriesOf(d, i) # {}

\* call i has passed its entry to the cores
Written(i) ==
    \/ calls[i].status \in {"returned", "exited"}
    \/ calls[i].status = "running" /\ calls[i].level = FatalLevel

ErrorCall(i) == calls[i].fn \in {"Error", "Logger.Error"}

ValuesOf(fields, key) == {fields[k].val : k \in {j \in 1..Len(fields) : fields[j].key = key}}

\* the logger has the console channel, which the design makes optional
HasConsole(l) == \E k \in 1..Len(l.cores) : l.cores[k].dest = Stdout

\* C1: a record of level X is delivered to the informational file iff
\* debug <= X <= warn, to the error file iff X >= error, and to the console,
\* where the logger has one, for every X.
C1_Routing ==
    \A i \in 1..Len(calls) :
        Written(i) =>
            /\ InOut(logInstance.config.InfoLogPath, i)
                   <=> (calls[i].level >= DebugLevel /\ calls[i].level <= WarnLevel)
            /\ InOut(logInstance.config.ErrorLogPath, i) <=> calls[i].level >= ErrorLevel
            /\ HasConsole(logInstance) => InOut(Stdout, i)

\* C2: whatever the Init calls, NewLogger runs at most once, the instance
\* once stored is the one every call observes, and it is never replaced.
C2_InitOnce ==
    /\ nConstructed <= 1
    /\ logInstance.id <= 1
    /\ \A i \in 1..Len(calls) : calls[i].inst \in {0, logInstance.id}

\* C3: a returned Error(msg, err, tags...) with a non-nil err has put one
\* error-level record in the error file, holding the caller's tags, an
\* "error" field whose value is err.Error(), and a non-empty "stacktrace"
\* field.
C3_ErrorRecord ==
    \A i \in 1..Len(calls) :
        (ErrorCall(i) /\ calls[i].status = "returned") =>
            LET d == logInstance.config.ErrorLogPath
            IN /\ Cardinality(EntriesOf(d, i)) = 1
               /\ \A k \in EntriesOf(d, i) :
                    LET f == out[d][k].fields
                    IN /\ out[d][k].level = ErrorLevel
                       /\ calls[i].shared =>
                            (Len(f) >= Len(AppTags) /\ SubSeq(f, 1, Len(AppTags)) = AppTags)
                       /\ <<ErrorText(calls[i].err)>> \in ValuesOf(f, "error")
                       /\ ValuesOf(f, "stacktrace") # {}
                       /\ <<>> \notin ValuesOf(f, "stacktrace")

\* C4: when Cleanup has returned, the record of every logging call that had
\* returned before it was invoked is in each file whose filter accepts the
\* record's level.
C4_FlushedPresent ==
    \A i \in flushed :
        /\ (calls[i].level >= DebugLevel /\ calls[i].level <= WarnLevel)
               => InOut(logInstance.config.InfoLogPath, i)
        /\ calls[i].level >= ErrorLevel => InOut(logInstance.config.ErrorLogPath, i)

C4_Witness ==
    /\ \E i \in flushed : calls[i].level = WarnLevel
    /\ \E i \in flushed : calls[i].level = ErrorLevel

\* C5: a Fatal or Fatalf call on an initialised logger has its record in the
\* error file and on the console (and not in the informational file) before
\* the process exits; the exit follows only such a call, the calling
\* goroutine never resumes, and nothing runs once the process has exited.
C5_Written ==
    /\ \A i \in 1..Len(calls) :
          (calls[i].level = FatalLevel /\ calls[i].status \in {"running", "exited"}) =>
              /\ InOut(logInstance.config.ErrorLogPath, i)
              /\ InOut(Stdout, i)
              /\ ~InOut(logInstance.config.InfoLogPath, i)
    /\ halt = "exit" <=>
          \E i \in 1..Len(calls) : calls[i].level = FatalLevel /\ calls[i].status = "exited"

C5_FatalThenExit ==
    /\ []C5_Written
    /\ [][/\ halt # "exit"
          /\ \A t \in Threads : pc[t] = "fatal_exit" => pc'[t] = "fatal_exit"]_vars

C5_Witness ==
    /\ halt = "exit"
    /\ \E i \in 1..Len(calls) : calls[i].fn = "Fatal" /\ calls[i].status = "exited"
    /\ \E i \in 1..Len(calls) : calls[i].fn = "Fatalf" /\ calls[i].status = "running"

\* the level a formatted variant logs at
LevelOfVariant(fn) ==
    CASE fn \in {"Debugf", "Logger.Debugf"} -> DebugLevel
      [] fn \in {"Infof", "Logger.Infof"} -> InfoLevel
      [] fn \in {"Warnf", "Logger.Warnf"} -> WarnLevel
      [] fn \in {"Errorf", "Logger.Errorf"} -> ErrorLevel
      [] fn \in {"Fatalf", "Logger.Fatalf"} -> FatalLevel

FormattedCall(i) ==
    calls[i].fn \in {"Debugf", "Infof", "Warnf", "Errorf", "Fatalf", "Logger.Debugf",
                     "Logger.Infof", "Logger.Warnf", "Logger.Errorf", "Logger.Fatalf"}

\* the number of verbs among the first k pieces of a format
VerbsUpTo(format, k) == Cardinality({j \in 1..k : format[j] = Verb})

\* C6: the record of a formatted variant has the variant's level and the
\* message Sprintf gives for the format and the arguments, with or without
\* fields attached; when the format has as many verbs as there are
\* arguments, that message is the format with each verb replaced by its
\* argument's text.
C6_Formatted ==
    \A i \in 1..Len(calls) :
        (FormattedCall(i) /\ Written(i)) =>
            /\ calls[i].level = LevelOfVariant(calls[i].fn)
            /\ \A k \in EntriesOf(Stdout, i) :
                  /\ out[Stdout][k].level = LevelOfVariant(calls[i].fn)
                  /\ out[Stdout][k].msg = Sprintf(calls[i].format, calls[i].args)
                  /\ LET f == calls[i].format
                         a == calls[i].args
                         m == out[Stdout][k].msg
                     IN VerbsUpTo(f, Len(f)) = Len(a) =>
                           /\ Len(m) = Len(f)
                           /\ \A j \in 1..Len(f) :
                                 m[j] = IF f[j] # Verb THEN f[j]
                                        ELSE LET x == a[VerbsUpTo(f, j)]
                                             IN IF x \in Errs THEN ErrorText(x)
                                                ELSE IF x = NilValue THEN "<nil>" ELSE x
            /\ InOut(Stdout, i)

C6_Witness ==
    \E i \in 1..Len(calls) :
        /\ calls[i].fn = "Warnf" /\ Written(i)
        /\ calls[i].format = <<Verb, "m", Verb>> /\ calls[i].args = <<"s", "e2">>
        /\ \E k \in EntriesOf(Stdout, i) : out[Stdout][k].msg = <<"s", "m", "boom2">>

\* C7: Errorf attaches an "error" and a "stacktrace" field iff some argument
\* is an error value, the error message being that of the first such
\* argument, and attaches nothing otherwise; the package-level function and
\* the method alike.
C7_Errorf ==
    \A i \in 1..Len(calls) :
        (calls[i].fn \in {"Errorf", "Logger.Errorf"} /\ Written(i)) =>
            LET a == calls[i].args
                errAt == {k \in 1..Len(a) : a[k] \in Errs}
            IN /\ InOut(logInstance.config.ErrorLogPath, i)
               /\ \A n \in EntriesOf(logInstance.config.ErrorLogPath, i) :
                    LET f == out[logInstance.config.ErrorLogPath][n].fields
                    IN IF errAt = {}
                       THEN f = <<>>
                       ELSE /\ Len(f) = 2
                            /\ f[1].key = "error"
                            /\ \E k \in errAt :
                                  /\ \A j \in errAt : k <= j
                                  /\ f[1].val = <<ErrorText(a[k])>>
                            /\ f[2].key = "stacktrace"
                            /\ f[2].val # <<>>

C7_Witness ==
    /\ \E i \in 1..Len(calls) :
          /\ calls[i].fn = "Errorf" /\ Written(i) /\ calls[i].args = <<"e2", "e1">>
          /\ \E n \in EntriesOf(logInstance.config.ErrorLogPath, i) :
                out[logInstance.config.ErrorLogPath][n].fields[1].val = <<"boom2">>

\* C8 as stated: a call made while no Init call has returned panics and
\* delivers no record.
C8_BeforeInitReturns ==
    \A i \in 1..Len(calls) :
        ~calls[i].ready =>
            /\ calls[i].status \in {"panicked", "running"}
            /\ \A d \in Dests : ~InOut(d, i)

\* C8 as amended: a call that finds logInstance nil panics: it delivers no
\* record, the process is then down for good with logInstance as it was,
\* and a call that finds an instance finds the one whole logger NewLogger
\* built.
C8_NilPanics ==
    /\ \A i \in 1..Len(calls) :
          /\ calls[i].inst = 0 =>
                /\ calls[i].status \in {"panicked", "running"}
                /\ \A d \in Dests : ~InOut(d, i)
          /\ calls[i].status = "panicked" => halt = "panic"
          /\ calls[i].inst # 0 =>
                /\ logInstance.id = calls[i].inst
                /\ logInstance = NewLogger(logInstance.config, logInstance.id)
    /\ (halt = "panic" /\ \A i \in 1..Len(calls) : calls[i].status # "panicked")
          => (logInstance = Nil /\ flushed = {})

C8_Witness ==
    /\ halt = "panic"
    /\ \E i \in 1..Len(calls) :
          calls[i].fn = "Infof" /\ calls[i].inst = 0 /\ calls[i].status = "panicked"

\* C9: among the fields Error appends after the caller's tags, the key
\* "error" occurs once and the key "stacktrace" occurs once.
C9_OneErrorField ==
    \A i \in 1..Len(calls) :
        (ErrorCall(i) /\ calls[i].status = "returned") =>
            LET f == calls[i].fields
                n == IF calls[i].shared THEN Len(AppTags) ELSE 0
            IN /\ Cardinality({k \in n + 1..Len(f) : f[k].key = "error"}) = 1
               /\ Cardinality({k \in n + 1..Len(f) : f[k].key = "stacktrace"}) = 1

\* C10: Error leaves the caller's tags and their backing array as they were,
\* and the record of a returned Error call carries the message of its own
\* err only.
C10_TagsUntouched ==
    /\ SubSeq(backing, 1, Len(AppTags)) = AppTags
    /\ \A k \in Len(AppTags) + 1..Len(backing) : backing[k] = ZeroField
    /\ \A i \in 1..Len(calls) :
          (ErrorCall(i) /\ calls[i].status = "returned") =>
              ValuesOf(calls[i].fields, "error") = {<<ErrorText(calls[i].err)>>}

====
